---- MODULE Spec2Model ----
(***************************************************************************)
(* rdf_class_viz: the command-line program (cli/src/main.rs,               *)
(* lib/src/main.rs) and the Visualizer library in its two variants: the    *)
(* colouring one (lib/src/lib.rs) and the plain one (src/lib.rs).          *)
(*                                                                         *)
(* Text is a sequence of lexical chunks (a chunk is an atom of the text,   *)
(* no chunk is part of another); str::replace, str::contains and           *)
(* str::trim_matches work on those sequences as they work on characters.   *)
(* Positions are 1-based here where Rust's are 0-based.                    *)
(***************************************************************************)
EXTENDS Integers, Sequences, FiniteSets, TLC

\* Longest list of positional arguments given to the two mains as written.
MaxCliArgs == 3

\* Longest list of positional arguments given to a main that configures the
\* library otherwise.
MaxArgs == 2

-----------------------------------------------------------------------------
(* Text *)

\* str::replace (lib.rs:27): every non-overlapping occurrence, left to right.
RECURSIVE Replace(_, _, _)
Replace(s, pat, rep) ==
    IF Len(s) < Len(pat) THEN s
    ELSE IF SubSeq(s, 1, Len(pat)) = pat
         THEN rep \o Replace(SubSeq(s, Len(pat) + 1, Len(s)), pat, rep)
         ELSE <<Head(s)>> \o Replace(Tail(s), pat, rep)

\* str::contains (lib/src/main.rs:23).
Contains(s, pat) ==
    \E k \in 0..(Len(s) - Len(pat)) : SubSeq(s, k + 1, k + Len(pat)) = pat

\* str::trim_matches (lib.rs:30): strips the chunks of `set` from both ends.
RECURSIVE TrimStart(_, _)
TrimStart(s, set) ==
    IF s # <<>> /\ Head(s) \in set THEN TrimStart(Tail(s), set) ELSE s

RECURSIVE TrimEnd(_, _)
TrimEnd(s, set) ==
    IF s # <<>> /\ s[Len(s)] \in set
    THEN TrimEnd(SubSeq(s, 1, Len(s) - 1), set) ELSE s

trim_matches(s, set) == TrimEnd(TrimStart(s, set), set)

\* The namespace texts of PREFIXES and of the two query texts.
NS_BRICK == <<"https://brickschema.org/schema/", "Brick#">>
NS_RDF == <<"http://www.w3.org/1999/02/22-", "rdf-syntax-ns#">>
NS_OWL == <<"http://www.w3.org/2002/07/", "owl#">>
NS_RDFS == <<"http://www.w3.org/2000/01/", "rdf-schema#">>

\* The static prefix table.  A HashMap: its iteration order is unspecified,
\* but no namespace overlaps another or a replacement text, so every order
\* rewrites alike; the order below is one of them.
PREFIXES ==
    << [prefix |-> "brick", namespace |-> NS_BRICK],
       [prefix |-> "rdf", namespace |-> NS_RDF],
       [prefix |-> "owl", namespace |-> NS_OWL] >>

-----------------------------------------------------------------------------
(* RDF terms *)

Iri(v) == [kind |-> "iri", val |-> v]
BNode(v) == [kind |-> "bnode", val |-> v]

\* Term::to_string: <iri> for a named node, _:id for a blank node.
to_string(node) ==
    IF node.kind = "iri" THEN <<"<">> \o node.val \o <<">">>
    ELSE <<"_:">> \o node.val

RECURSIVE ReplaceAll(_, _, _)
ReplaceAll(s, table, k) ==
    IF k > Len(table) THEN s
    ELSE ReplaceAll(Replace(s, table[k].namespace, <<table[k].prefix \o "_">>),
                    table, k + 1)

\* rewrite_term: namespaces to prefix_, then the delimiters trimmed.
rewrite_term(node) ==
    trim_matches(ReplaceAll(to_string(node), PREFIXES, 1), {"<", ">", "\""})

-----------------------------------------------------------------------------
(* The store and its two queries *)

rdf_type == Iri(NS_RDF \o <<"type">>)
owl_Class == Iri(NS_OWL \o <<"Class">>)
rdfs_subClassOf == Iri(NS_RDFS \o <<"subClassOf">>)
owl_equivalentClass == Iri(NS_OWL \o <<"equivalentClass">>)

Brick(name) == Iri(NS_BRICK \o name)
Ex(name) == Iri(<<"urn:ex:">> \o name)

\* The files the command line can name.  brick.ttl and data.ttl are the
\* end-to-end scenario.  odd.ttl declares its own classes: a blank-node
\* class and two class IRIs that rewrite_term sends to one label, related by
\* two predicates one way and by one the other way.
Files == {"brick.ttl", "data.ttl", "odd.ttl", "broken.ttl", "missing.ttl"}

\* File::open fails on a file that is not there (cli/src/main.rs:39,45).
FileExists(name) == name # "missing.ttl"

\* load_graph fails on text that is not Turtle (lib.rs:66,118).
FileParses(name) == name # "broken.ttl"

FileTriples(name) ==
    CASE name = "brick.ttl" ->
           { <<Brick(<<"Equipment">>), rdf_type, owl_Class>>,
             <<Brick(<<"Point">>), rdf_type, owl_Class>>,
             <<Brick(<<"Point">>), rdfs_subClassOf, Brick(<<"Equipment">>)>> }
      [] name = "data.ttl" ->
           { <<Ex(<<"x">>), rdf_type, Brick(<<"Point">>)>>,
             <<Ex(<<"y">>), rdf_type, Brick(<<"Equipment">>)>>,
             <<Ex(<<"x">>), Brick(<<"feeds">>), Ex(<<"y">>)>> }
      [] name = "odd.ttl" ->
           { <<BNode(<<"c0">>), rdf_type, owl_Class>>,
             <<Ex(<<"brick_", "Zone">>), rdf_type, owl_Class>>,
             <<Ex(NS_BRICK \o <<"Zone">>), rdf_type, owl_Class>>,
             <<Ex(NS_BRICK \o <<"Zone">>), owl_equivalentClass, Brick(<<"Location">>)>>,
             <<Ex(<<"w">>), rdf_type, BNode(<<"c0">>)>>,
             <<Ex(<<"z1">>), rdf_type, Ex(<<"brick_", "Zone">>)>>,
             <<Ex(<<"z2">>), rdf_type, Ex(NS_BRICK \o <<"Zone">>)>>,
             <<Ex(<<"w">>), Brick(<<"feeds">>), Ex(<<"z1">>)>>,
             <<Ex(<<"w">>), Brick(<<"has", "Point">>), Ex(<<"z2">>)>>,
             <<Ex(<<"z2">>), Brick(<<"feeds">>), Ex(<<"w">>)>> }
      [] OTHER -> {}

\* The SELECT of create_graph: one solution per binding of x, from, p, y, to
\* (`a` is rdf:type).
Solutions(st) ==
    LET Typed == { t \in st : t[2] = rdf_type /\ <<t[3], rdf_type, owl_Class>> \in st }
    IN  UNION { UNION { { [x |-> a[1], from |-> a[3], p |-> b[2], y |-> b[3], to |-> c[3]] :
                            c \in { t \in Typed : t[1] = b[3] } } :
                        b \in { t \in st : t[1] = a[1] } } :
                a \in Typed }

\* One step along rdfs:subClassOf | owl:equivalentClass from the terms of S.
PathStep(st, S) ==
    S \cup { t[3] : t \in { u \in st : /\ u[1] \in S
                                       /\ u[2] \in {rdfs_subClassOf, owl_equivalentClass} } }

\* (rdfs:subClassOf|owl:equivalentClass)* from S: zero or more steps.
RECURSIVE PathClosure(_, _)
PathClosure(st, S) ==
    IF PathStep(st, S) = S THEN S ELSE PathClosure(st, PathStep(st, S))

StoreTerms(st) == UNION { {t[1], t[2], t[3]} : t \in st }

\* The characters an IRIREF of a SPARQL query cannot hold.
IllegalIriChunks == {" ", "<", ">", "{", "}", "|"}

\* Whether the ASK text of to_color parses with class_name spliced in <...>.
QueryParses(class_name) ==
    \A k \in 1..Len(class_name) : class_name[k] \notin IllegalIriChunks

\* The ASK of to_color, for a query that parses.  The node is spliced into
\* the query text as it prints: a blank node printed as _:id is, in a query
\* pattern, a variable and not a reference to the blank node of the store.
AskQuery(st, node, class_name) ==
    IF node.kind = "bnode"
    THEN \E s \in StoreTerms(st) \cup {Iri(class_name)} :
            Iri(class_name) \in PathClosure(st, {s})
    ELSE Iri(class_name) \in PathClosure(st, {node})

-----------------------------------------------------------------------------
(* What the caller configures *)

\* The filters of the three callers: the closure of cli/src/main.rs (true),
\* the closure of lib/src/main.rs (edge.contains("Point")), and a script of
\* the plain variant whose call fails (UserFilter::filter unwraps it).
Filters == {"true", "edge_contains_Point", "script_throws"}

\* (self.filter)(from, to, edge) on the raw term texts.
FilterCall(f, from, to, edge) ==
    CASE f = "true" -> "true"
      [] f = "edge_contains_Point" ->
           IF Contains(edge, <<"Point">>) THEN "true" ELSE "false"
      [] OTHER -> "throws"

\* color_map_defn of cli/src/main.rs, lines 27-31.
CliRules ==
    << <<NS_BRICK \o <<"Location">>, <<"LightCoral">> >>,
       <<NS_BRICK \o <<"Point">>, <<"Gold">> >>,
       <<NS_BRICK \o <<"Equipment">>, <<"#32BF84">> >> >>

\* The colour rules other callers supply, as the list they write: none; the
\* rule of the end-to-end scenario; two rules that both match brick:Point;
\* a list whose second class name is not an IRI.
RuleLists ==
    { <<>>,
      << <<NS_BRICK \o <<"Equipment">>, <<"Gold">> >> >>,
      << <<NS_BRICK \o <<"Equipment">>, <<"red">> >>,
         <<NS_BRICK \o <<"Point">>, <<"blue">> >> >>,
      << <<NS_BRICK \o <<"Point">>, <<"blue">> >>,
         <<NS_BRICK \o <<"Air", " ", "Handler">>, <<"red">> >> >> }

\* color_map_defn.into_iter().collect(): the list as a HashMap.
CollectMap(defn) ==
    [ cn \in { defn[k][1] : k \in 1..Len(defn) } |->
        LET last == CHOOSE k \in 1..Len(defn) :
                        /\ defn[k][1] = cn
                        /\ \A j \in (k + 1)..Len(defn) : defn[j][1] # cn
        IN  defn[last][2] ]

\* The orders in which a HashMap with the keys S can iterate.
IterationOrders(S) ==
    { q \in [1..Cardinality(S) -> S] : \A a, b \in DOMAIN q : q[a] = q[b] => a = b }

ArgLists(longest) == UNION { [1..n -> Files] : n \in 0..longest }

-----------------------------------------------------------------------------
(* State *)

VARIABLES
    args,             \* the positional arguments (args[1..] of the program)
    coloring,         \* TRUE: lib/src/lib.rs with cli/src/main.rs; FALSE: src/lib.rs
    filter,           \* Visualizer.filter
    color_map_defn,   \* the rules in the order the caller wrote them
    class_color_map,  \* Visualizer.class_color_map
    iter_order,       \* the order class_color_map.iter() yields its keys in
    pc,               \* where the program is
    status,           \* "running", or how the process ended
    stderr,           \* lines written to standard error
    stdout,           \* what println! wrote
    disk,             \* the output files: name -> content
    io,               \* the files opened and loaded, in order
    store,            \* Visualizer.store: the triples loaded
    next_arg,         \* the argument the ontology loop is at
    remaining,        \* solutions the row iterator has yet to yield
    rowlog,           \* the rows the iterator has yielded, in order
    labels,           \* Visualizer.labels
    edges,            \* the local Vec of create_graph
    g,                \* Visualizer.g
    nodes,            \* Visualizer.nodes
    colors,           \* Visualizer.colors
    resolutions       \* the calls of to_color so far

vars ==
    << args, coloring, filter, color_map_defn, class_color_map, iter_order, pc,
       status, stderr, stdout, disk, io, store, next_arg, remaining, rowlog,
       labels, edges, g, nodes, colors, resolutions >>

config == << args, coloring, filter, color_map_defn >>
visualizer == << labels, edges, g, nodes, colors, resolutions >>
outputs == << stderr, stdout, disk >>

EmptyMap == [x \in {} |-> <<>>]
EmptyGraph == [nodes |-> <<>>, edges |-> <<>>]

\* The program as cli/src/main.rs writes it (colouring, filter true, its
\* rule list) or as lib/src/main.rs does (plain, the filter on "Point").
InitMains ==
    /\ args \in ArgLists(MaxCliArgs)
    /\ coloring \in BOOLEAN
    /\ filter = IF coloring THEN "true" ELSE "edge_contains_Point"
    /\ color_map_defn = IF coloring THEN CliRules ELSE <<>>

\* The library configured by another caller.
InitLibrary ==
    /\ args \in ArgLists(MaxArgs)
    /\ coloring \in BOOLEAN
    /\ filter \in IF coloring THEN {"true", "edge_contains_Point"} ELSE Filters
    /\ color_map_defn \in IF coloring THEN RuleLists ELSE {<<>>}

Init ==
    /\ InitMains \/ InitLibrary
    /\ class_color_map = EmptyMap
    /\ iter_order = <<>>
    /\ pc = "main"
    /\ status = "running"
    /\ stderr = <<>>
    /\ stdout = <<>>
    /\ disk = EmptyMap
    /\ io = <<>>
    /\ store = {}
    /\ next_arg = 1
    /\ remaining = {}
    /\ rowlog = <<>>
    /\ labels = <<>>
    /\ edges = <<>>
    /\ g = EmptyGraph
    /\ nodes = EmptyMap
    /\ colors = EmptyMap
    /\ resolutions = <<>>

\* The process ends: how, and nothing else changes.
Exit(how) ==
    /\ pc' = "exit"
    /\ status' = how

-----------------------------------------------------------------------------
(* main *)

\* The argument check off by one.
TooFewArgs_off_by_one(a) == Len(a) + 1 < 2

\* args.len() < 3, the program name counted.
TooFewArgs(a) == Len(a) + 1 < 3

\* main, lines 12-17: the usage message and exit(1).
Usage ==
    /\ pc = "main"
    /\ TooFewArgs(args)
    /\ stderr' = Append(stderr, "Usage: <ontology_file1> <ontology_file2> ... <graph_filename>")
    /\ Exit("usage")
    /\ UNCHANGED << config, class_color_map, iter_order, stdout, disk, io, store,
                    next_arg, remaining, rowlog, visualizer >>

\* main, lines 27-35, and Visualizer::new: the rules collected into a
\* HashMap, whose iteration order is any; everything else empty.
New ==
    /\ pc = "main"
    /\ ~TooFewArgs(args)
    /\ class_color_map' = CollectMap(color_map_defn)
    /\ iter_order' \in IterationOrders(DOMAIN CollectMap(color_map_defn))
    /\ store' = {}
    /\ labels' = <<>>
    /\ g' = EmptyGraph
    /\ nodes' = EmptyMap
    /\ colors' = EmptyMap
    /\ next_arg' = 1
    /\ pc' = "ontology"
    /\ UNCHANGED << config, status, outputs, io, remaining, rowlog, edges,
                    resolutions >>

\* The ontology arguments: every argument but the last.
IsOntologyArg(a, k) == k < Len(a)

\* main, lines 38-42, one turn of the loop: File::open, then add_ontology.
AddOntology ==
    /\ pc = "ontology"
    /\ IsOntologyArg(args, next_arg)
    /\ LET file == args[next_arg] IN
        IF ~FileExists(file)
        THEN /\ io' = Append(io, <<"open_failed", file>>)
             /\ Exit("err")
             /\ UNCHANGED << store, next_arg >>
        ELSE IF ~FileParses(file)
        THEN /\ io' = Append(io, <<"ontology_failed", file>>)
             /\ Exit("err")
             /\ UNCHANGED << store, next_arg >>
        ELSE /\ io' = Append(io, <<"ontology", file>>)
             /\ store' = store \cup FileTriples(file)
             /\ next_arg' = next_arg + 1
             /\ UNCHANGED << pc, status >>
    /\ UNCHANGED << config, class_color_map, iter_order, outputs, remaining,
                    rowlog, visualizer >>

\* main, lines 45-47, and create_graph, lines 118-123: the last argument is
\* opened and loaded into the same store.
LoadData ==
    /\ pc = "ontology"
    /\ ~IsOntologyArg(args, next_arg)
    /\ LET file == args[Len(args)] IN
        IF ~FileExists(file)
        THEN /\ io' = Append(io, <<"open_failed", file>>)
             /\ Exit("err")
             /\ UNCHANGED store
        ELSE IF ~FileParses(file)
        THEN /\ io' = Append(io, <<"data_failed", file>>)
             /\ Exit("err")
             /\ UNCHANGED store
        ELSE /\ io' = Append(io, <<"data", file>>)
             /\ store' = store \cup FileTriples(file)
             /\ pc' = "query"
             /\ UNCHANGED status
    /\ UNCHANGED << config, class_color_map, iter_order, outputs, next_arg,
                    remaining, rowlog, visualizer >>

\* A row loop left after its first turn.
AfterRows_early(rest) == "insert"

\* Where create_graph goes when the row loop has no row left.
AfterRows(rest) == IF rest = {} THEN "insert" ELSE "rows"

\* create_graph, line 135: the SELECT runs, or the store reports a failure.
RunSelect ==
    /\ pc = "query"
    /\ \E failed \in BOOLEAN :
        IF failed
        THEN /\ Exit("err")
             /\ UNCHANGED << remaining, edges >>
        ELSE /\ remaining' = Solutions(store)
             /\ edges' = <<>>
             /\ pc' = AfterRows(Solutions(store))
             /\ UNCHANGED status
    /\ UNCHANGED << config, class_color_map, iter_order, outputs, io, store,
                    next_arg, rowlog, labels, g, nodes, colors, resolutions >>

-----------------------------------------------------------------------------
(* create_graph: the row pass *)

DefaultColor == <<"#ffffff">>

\* to_color, from the k-th rule on in the iteration order of the map: one ASK
\* per rule until one answers true.  A query that does not parse, or that
\* the store fails (`failing`, the first query only), is the `?` of line 106.
RECURSIVE ToColorFrom(_, _, _, _, _, _, _)
ToColorFrom(st, order, map, node, k, failing, asks) ==
    IF k > Len(order)
    THEN [ok |-> TRUE, color |-> DefaultColor, asks |-> asks]
    ELSE LET class_name == order[k]
             asked == Append(asks, <<node, class_name>>)
         IN  IF failing \/ ~QueryParses(class_name)
             THEN [ok |-> FALSE, color |-> <<>>, asks |-> asked]
             ELSE IF AskQuery(st, node, class_name)
             THEN [ok |-> TRUE, color |-> map[class_name], asks |-> asked]
             ELSE ToColorFrom(st, order, map, node, k + 1, FALSE, asked)

to_color(st, order, map, node, failing) ==
    ToColorFrom(st, order, map, node, 1, failing, <<>>)

\* A cache check that never finds the label.
NeedsColor_always(cache, label) == TRUE

\* A cache check the wrong way round.
NeedsColor_inverted(cache, label) == label \in DOMAIN cache

\* Lines 151 and 159: a colour is resolved for a label the cache lacks.
NeedsColor(cache, label) == label \notin DOMAIN cache

\* Lines 151-153 (and 159-161): the cache filled for one term of a row.  The
\* result holds the cache, the log of to_color calls, and whether the unwrap
\* of the call's result went through.
ColorStep(cache, log, node, label, failing) ==
    IF coloring /\ NeedsColor(cache, label)
    THEN LET r == to_color(store, iter_order, class_color_map, node, failing)
             logged == Append(log, [label |-> label, node |-> node, ok |-> r.ok,
                                    color |-> r.color, asks |-> r.asks])
         IN  IF r.ok
             THEN [ok |-> TRUE, colors |-> (label :> r.color) @@ cache, log |-> logged]
             ELSE [ok |-> FALSE, colors |-> cache, log |-> logged]
    ELSE [ok |-> TRUE, colors |-> cache, log |-> log]

\* A filter step that lets every row through.
FilterVerdict_ignored(row) == "true"

\* Line 145: whether the row goes on, is skipped, or the filter call fails.
FilterVerdict(row) ==
    FilterCall(filter, to_string(row.from), to_string(row.to), to_string(row.p))

\* create_graph, lines 137-169: one turn of the row loop, on the solution the
\* store yields next (any one that is left).  `fault` is what the store does
\* in this turn: fail to yield the row, or fail the first ASK of the turn.
ProcessRow ==
    /\ pc = "rows"
    /\ \E s \in remaining, fault \in {"none", "row", "ask"} :
        LET row == [from |-> s.from, p |-> s.p, to |-> s.to]
            verdict == FilterVerdict(row)
            f == rewrite_term(row.from)
            c1 == ColorStep(colors, resolutions, row.from, f, fault = "ask")
            labels1 == Append(labels, f)
            f_idx == Len(labels1)
            t == rewrite_term(row.to)
            c2 == ColorStep(c1.colors, c1.log, row.to, t,
                            fault = "ask" /\ c1.log = resolutions)
            labels2 == Append(labels1, t)
            t_idx == Len(labels2)
            e == rewrite_term(row.p)
            labels3 == Append(labels2, e)
            e_idx == Len(labels3)
        IN
        IF fault = "row"
        THEN /\ Exit("err")
             /\ UNCHANGED << remaining, rowlog, labels, edges, colors, resolutions >>
        ELSE IF verdict = "throws"
        THEN /\ Exit("panic")
             /\ UNCHANGED << remaining, rowlog, labels, edges, colors, resolutions >>
        ELSE IF verdict = "false"
        THEN /\ remaining' = remaining \ {s}
             /\ rowlog' = Append(rowlog, row)
             /\ pc' = AfterRows(remaining \ {s})
             /\ UNCHANGED << status, labels, edges, colors, resolutions >>
        ELSE IF ~c1.ok
        THEN /\ Exit("panic")
             /\ rowlog' = Append(rowlog, row)
             /\ resolutions' = c1.log
             /\ UNCHANGED << remaining, labels, edges, colors >>
        ELSE IF ~c2.ok
        THEN /\ Exit("panic")
             /\ rowlog' = Append(rowlog, row)
             /\ colors' = c1.colors
             /\ labels' = labels1
             /\ resolutions' = c2.log
             /\ UNCHANGED << remaining, edges >>
        ELSE /\ remaining' = remaining \ {s}
             /\ rowlog' = Append(rowlog, row)
             /\ colors' = c2.colors
             /\ resolutions' = c2.log
             /\ labels' = labels3
             /\ edges' = Append(edges, <<f_idx, t_idx, e_idx>>)
             /\ pc' = AfterRows(remaining \ {s})
             /\ UNCHANGED status
    /\ UNCHANGED << config, class_color_map, iter_order, outputs, io, store,
                    next_arg, g, nodes >>

-----------------------------------------------------------------------------
(* create_graph: the insertion pass *)

\* A NodeEntry that adds a node whether or not the label has one.
NodeEntry_always_add(graph, index, label) ==
    [g |-> [graph EXCEPT !.nodes = Append(@, label)],
     nodes |-> (label :> Len(graph.nodes) + 1) @@ index,
     idx |-> Len(graph.nodes) + 1]

\* self.nodes.entry(label).or_insert_with(|| self.g.add_node(label)).
NodeEntry(graph, index, label) ==
    IF label \in DOMAIN index
    THEN [g |-> graph, nodes |-> index, idx |-> index[label]]
    ELSE [g |-> [graph EXCEPT !.nodes = Append(@, label)],
          nodes |-> (label :> Len(graph.nodes) + 1) @@ index,
          idx |-> Len(graph.nodes) + 1]

\* An update_edge that is add_edge: parallel edges pile up.
update_edge_add(graph, a, b, weight) ==
    [graph EXCEPT !.edges =
        Append(@, [source |-> a, target |-> b, weight |-> weight])]

\* Graph::update_edge on a directed graph: the weight of the edge a -> b is
\* replaced when there is one, and the edge is added when there is none.
update_edge(graph, a, b, weight) ==
    IF \E k \in 1..Len(graph.edges) :
            graph.edges[k].source = a /\ graph.edges[k].target = b
    THEN LET k == CHOOSE j \in 1..Len(graph.edges) :
                      graph.edges[j].source = a /\ graph.edges[j].target = b
         IN  [graph EXCEPT !.edges[k].weight = weight]
    ELSE [graph EXCEPT !.edges =
              Append(@, [source |-> a, target |-> b, weight |-> weight])]

\* Where create_graph goes after the insertion loop: the plain variant
\* writes output.d2 first (src/lib.rs:174), the colouring one output.dot
\* (lib/src/lib.rs:187).
AfterInsert == IF coloring THEN "write_dot" ELSE "write_d2"

\* Lines 173-183, one turn of the insertion loop: the two nodes looked up
\* or made, the edge between them updated.
InsertOne(state, names, triple) ==
    LET n1 == NodeEntry(state.g, state.nodes, names[triple[1]])
        n2 == NodeEntry(n1.g, n1.nodes, names[triple[2]])
    IN  [g |-> update_edge(n2.g, n1.idx, n2.idx, names[triple[3]]),
         nodes |-> n2.nodes]

\* The insertion loop from the k-th recorded triple on.
RECURSIVE InsertFrom(_, _, _, _)
InsertFrom(state, names, triples, k) ==
    IF k > Len(triples) THEN state
    ELSE InsertFrom(InsertOne(state, names, triples[k]), names, triples, k + 1)

\* create_graph, lines 172-184: the insertion loop, which neither fails nor
\* waits on anything.
InsertTriples ==
    /\ pc = "insert"
    /\ LET done == InsertFrom([g |-> g, nodes |-> nodes], labels, edges, 1)
       IN  /\ g' = done.g
           /\ nodes' = done.nodes
    /\ pc' = AfterInsert
    /\ UNCHANGED << config, class_color_map, iter_order, status, outputs, io,
                    store, next_arg, remaining, rowlog, labels, edges, colors,
                    resolutions >>

-----------------------------------------------------------------------------
(* The output artifacts *)

\* One edge line of the d2 text: "{} -> {}: {}".
EdgeLine(from, to, label) == from \o <<" -> ">> \o to \o <<": ">> \o label

\* One colour line of the d2 text: "{}.style.fill: \"{}\"".
FillLine(node, color) == node \o <<".style.fill: \"">> \o color \o <<"\"">>

EdgeLines(graph) ==
    [ k \in 1..Len(graph.edges) |->
        EdgeLine(graph.nodes[graph.edges[k].source],
                 graph.nodes[graph.edges[k].target],
                 graph.edges[k].weight) ]

\* The colour lines come in the iteration order of the HashMap, which is
\* any: they are kept as the bag of lines, line -> number of copies.
FillLines(cache) ==
    [ line \in { FillLine(l, cache[l]) : l \in DOMAIN cache } |->
        Cardinality({ l \in DOMAIN cache : FillLine(l, cache[l]) = line }) ]

\* Visualizer::graph_to_d2lang of the colouring variant.
graph_to_d2lang(graph, cache) ==
    [edge_lines |-> EdgeLines(graph), fill_lines |-> FillLines(cache)]

\* The Dot of petgraph: a line per node with its 0-based index and weight,
\* a line per edge with the indexes of its ends and its weight.
DotText(graph) ==
    [node_lines |-> [ k \in 1..Len(graph.nodes) |-> <<k - 1, graph.nodes[k]>> ],
     edge_lines |-> [ k \in 1..Len(graph.edges) |->
                        << graph.edges[k].source - 1, graph.edges[k].target - 1,
                           graph.edges[k].weight >> ]]

\* File::create(filename)? then write!(file, ...)?: the file is not made,
\* or is made and left incomplete, or holds the whole text.
WriteOutcomes == {"create_failed", "write_failed", "ok"}

WriteFile(fs, name, text, outcome) ==
    CASE outcome = "create_failed" -> fs
      [] outcome = "write_failed" -> (name :> [complete |-> FALSE, text |-> <<>>]) @@ fs
      [] OTHER -> (name :> [complete |-> TRUE, text |-> text]) @@ fs

\* src/lib.rs:174, the free function graph_to_d2lang of the plain variant.
WriteD2 ==
    /\ pc = "write_d2"
    /\ \E outcome \in WriteOutcomes :
        /\ disk' = WriteFile(disk, "output.d2", EdgeLines(g), outcome)
        /\ IF outcome = "ok"
           THEN pc' = "write_dot" /\ UNCHANGED status
           ELSE Exit("err")
    /\ UNCHANGED << config, class_color_map, iter_order, stderr, stdout, io,
                    store, next_arg, remaining, rowlog, visualizer >>

\* Where the program goes once output.dot is written: the colouring variant
\* has the d2 text to return and print, the plain one is done.
AfterDot == IF coloring THEN "print" ELSE "exit"

\* graph_to_dot(&self.g, "output.dot")?.
WriteDot ==
    /\ pc = "write_dot"
    /\ \E outcome \in WriteOutcomes :
        /\ disk' = WriteFile(disk, "output.dot", DotText(g), outcome)
        /\ IF outcome = "ok"
           THEN /\ pc' = AfterDot
                /\ status' = IF AfterDot = "exit" THEN "ok" ELSE status
           ELSE Exit("err")
    /\ UNCHANGED << config, class_color_map, iter_order, stderr, stdout, io,
                    store, next_arg, remaining, rowlog, visualizer >>

\* lib/src/lib.rs:188 and cli/src/main.rs:47: the d2 text returned and printed.
PrintD2 ==
    /\ pc = "print"
    /\ stdout' = Append(stdout, graph_to_d2lang(g, colors))
    /\ Exit("ok")
    /\ UNCHANGED << config, class_color_map, iter_order, stderr, disk, io,
                    store, next_arg, remaining, rowlog, visualizer >>

Next ==
    \/ Usage
    \/ New
    \/ AddOntology
    \/ LoadData
    \/ RunSelect
    \/ ProcessRow
    \/ InsertTriples
    \/ WriteD2
    \/ WriteDot
    \/ PrintD2

Spec == Init /\ [][Next]_vars

-----------------------------------------------------------------------------
(* Properties *)

Range(q) == { q[k] : k \in DOMAIN q }

\* The filter's answer on the raw text of a row.
Survives(row) ==
    FilterCall(filter, to_string(row.from), to_string(row.to), to_string(row.p)) = "true"

\* The rows yielded so far that the filter accepts, in processing order.
Surviving == SelectSeq(rowlog, Survives)

\* create_graph is through both passes: the graph will not change any more.
Finalized == pc \in {"write_d2", "write_dot", "print"} \/ status = "ok"

NodeLabelsOf(rows) ==
    { rewrite_term(rows[k].from) : k \in DOMAIN rows }
        \cup { rewrite_term(rows[k].to) : k \in DOMAIN rows }

NodeTermsOf(rows) ==
    { rows[k].from : k \in DOMAIN rows } \cup { rows[k].to : k \in DOMAIN rows }

PairOf(row) == << rewrite_term(row.from), rewrite_term(row.to) >>

\* C1 (dedup invariant): once create_graph is through its passes, the graph
\* has as many nodes as there are distinct normalized labels among the from
\* and to of the surviving rows; each such label has one node and every
\* node is such a label.
C1_DedupInvariant ==
    Finalized =>
        /\ LET wanted == NodeLabelsOf(Surviving)
           IN  Len(g.nodes) = Cardinality(wanted) /\ Range(g.nodes) = wanted
        /\ \A a, b \in DOMAIN g.nodes : g.nodes[a] = g.nodes[b] => a = b

\* C1 witness: a finished build of at least three nodes in which two
\* different class terms share one label and one node.
C1_Witness ==
    /\ Finalized
    /\ Len(g.nodes) >= 3
    /\ Cardinality(NodeTermsOf(Surviving)) > Len(g.nodes)

\* The edges of the graph between the nodes labelled from and to.
EdgesBetween(from, to) ==
    { k \in DOMAIN g.edges : /\ g.nodes[g.edges[k].source] = from
                             /\ g.nodes[g.edges[k].target] = to }

\* The label pairs of a sequence of rows, in its order.
PairsOf(rows_) == [k \in DOMAIN rows_ |-> PairOf(rows_[k])]

\* The last place a pair has in a sequence of pairs.
LastOfPair(pairs, pair) ==
    CHOOSE k \in DOMAIN pairs :
        /\ pairs[k] = pair
        /\ \A j \in DOMAIN pairs : pairs[j] = pair => j <= k

\* C2 (last write wins): once create_graph is through its passes, every
\* ordered pair of labels some surviving row produced has exactly one edge,
\* labelled with the normalized predicate of the last surviving row of that
\* pair, and the graph has no other edge.
C2_LastWriteWins ==
    Finalized =>
        LET rows_ == Surviving
            pairs == PairsOf(rows_)
        IN  /\ \A pair \in Range(pairs) :
                /\ Cardinality(EdgesBetween(pair[1], pair[2])) = 1
                /\ \A k \in EdgesBetween(pair[1], pair[2]) :
                    g.edges[k].weight = rewrite_term(rows_[LastOfPair(pairs, pair)].p)
            /\ \A k \in DOMAIN g.edges :
                << g.nodes[g.edges[k].source], g.nodes[g.edges[k].target] >>
                    \in Range(pairs)

\* C2 witness: a finished build in which two surviving rows of one pair
\* carry different predicates and a third surviving row has the reversed
\* pair.
C2_Witness ==
    /\ Finalized
    /\ \E i, j \in DOMAIN Surviving :
        /\ i < j
        /\ PairOf(Surviving[i]) = PairOf(Surviving[j])
        /\ Surviving[i].p # Surviving[j].p
    /\ \E i, j \in DOMAIN Surviving :
        /\ PairOf(Surviving[i])[1] # PairOf(Surviving[i])[2]
        /\ PairOf(Surviving[j]) = << PairOf(Surviving[i])[2], PairOf(Surviving[i])[1] >>

\* The rules that are an ancestry match for the node, by their place in the
\* list the caller wrote.
MatchesInListOrder(node) ==
    { k \in DOMAIN color_map_defn :
        /\ QueryParses(color_map_defn[k][1])
        /\ AskQuery(store, node, color_map_defn[k][1]) }

\* C3 (colour precedence): a resolved colour is that of the first rule, in
\* the order the caller supplied the rules, that is an ancestry match for
\* the class, and the default white when no rule matches.
C3_FirstRuleInCallerOrder ==
    \A k \in DOMAIN resolutions :
        LET r == resolutions[k]
            hits == MatchesInListOrder(r.node)
        IN  r.ok =>
              IF hits = {}
              THEN r.color = DefaultColor
              ELSE r.color =
                     color_map_defn[CHOOSE h \in hits : \A o \in hits : h <= o][2]

\* The kept rows processed to the end: every surviving row but, when the
\* process died in the colour step of a row, that row.
ProcessedTo(rows_) ==
    IF status = "panic" /\ rows_ # <<>> THEN SubSeq(rows_, 1, Len(rows_) - 1) ELSE rows_

RECURSIVE Flatten(_)
Flatten(rows_) ==
    IF rows_ = <<>> THEN <<>>
    ELSE << rewrite_term(Head(rows_).from), rewrite_term(Head(rows_).to),
            rewrite_term(Head(rows_).p) >> \o Flatten(Tail(rows_))

\* The graph of a sequence of rows, by the rule of section 4.3: a node per
\* label in order of first appearance, an edge per ordered pair in order of
\* first appearance, labelled by the last row of the pair.
RECURSIVE FirstSeen(_, _)
FirstSeen(q, seen) ==
    IF q = <<>> THEN <<>>
    ELSE IF Head(q) \in seen THEN FirstSeen(Tail(q), seen)
    ELSE <<Head(q)>> \o FirstSeen(Tail(q), seen \cup {Head(q)})

RECURSIVE NodeOrder(_)
NodeOrder(rows_) ==
    IF rows_ = <<>> THEN <<>>
    ELSE << rewrite_term(Head(rows_).from), rewrite_term(Head(rows_).to) >>
            \o NodeOrder(Tail(rows_))

PositionIn(q, x) == CHOOSE k \in DOMAIN q : q[k] = x

GraphOfRows(rows_) ==
    LET ns == FirstSeen(NodeOrder(rows_), {})
        all == PairsOf(rows_)
        pairs == FirstSeen(all, {})
    IN  [nodes |-> ns,
         edges |-> [k \in DOMAIN pairs |->
                      [source |-> PositionIn(ns, pairs[k][1]),
                       target |-> PositionIn(ns, pairs[k][2]),
                       weight |-> rewrite_term(rows_[LastOfPair(all, pairs[k])].p)]]]

\* C4 (filter exclusion): a row the filter answers false for, on its raw
\* text, leaves nothing behind: the labels recorded are those of the
\* surviving rows alone, colours are cached and ancestry queries issued for
\* terms of surviving rows alone, and the finished graph is the graph of the
\* surviving rows alone.
C4_FilterExclusion ==
    LET rows_ == Surviving
        terms == NodeTermsOf(rows_)
    IN  /\ status # "panic" => labels = Flatten(rows_)
        /\ Len(edges) = Len(ProcessedTo(rows_))
        /\ DOMAIN colors \subseteq NodeLabelsOf(rows_)
        /\ \A k \in DOMAIN resolutions :
            /\ resolutions[k].node \in terms
            /\ \A a \in Range(resolutions[k].asks) : a[1] \in terms
        /\ Finalized =>
            /\ g = GraphOfRows(rows_)
            /\ nodes = [l \in Range(g.nodes) |-> PositionIn(g.nodes, l)]

\* C4 witness: a finished colouring build in which the filter rejected a
\* row whose classes a surviving row also names, and rejected another whose
\* to class no surviving row names.
C4_Witness ==
    /\ Finalized
    /\ coloring
    /\ resolutions # <<>>
    /\ \E k \in DOMAIN rowlog :
        /\ ~Survives(rowlog[k])
        /\ {rowlog[k].from, rowlog[k].to} \subseteq NodeTermsOf(Surviving)
    /\ \E k \in DOMAIN rowlog :
        /\ ~Survives(rowlog[k])
        /\ rowlog[k].to \notin NodeTermsOf(Surviving)

\* How many calls of to_color were made for the label.
CallsFor(label) ==
    Cardinality({ k \in DOMAIN resolutions : resolutions[k].label = label })

\* C5 (single resolution): to_color runs at most once for a label, whatever
\* the number of surviving rows that name it, and a colour once cached stays
\* as it is.
C5_SingleResolution ==
    /\ [](\A k \in DOMAIN resolutions : CallsFor(resolutions[k].label) = 1)
    /\ [][\A l \in DOMAIN colors : l \in DOMAIN colors' /\ colors'[l] = colors[l]]_vars

\* C5 witness: a finished colouring build of at least three surviving rows
\* in which one label is the from of a surviving row and the to of another,
\* and to_color ran once for it.
C5_Witness ==
    /\ Finalized
    /\ coloring
    /\ Len(Surviving) >= 3
    /\ \E l \in DOMAIN colors :
        /\ CallsFor(l) = 1
        /\ \E i, j \in DOMAIN Surviving :
            /\ i # j
            /\ rewrite_term(Surviving[i].from) = l
            /\ rewrite_term(Surviving[j].to) = l

\* C6 (failures are errors): a to_color call that fails on its ancestry
\* query ends create_graph with an error value returned to its caller, and
\* leaves no colour for the label.
C6_FailureIsReturnedError ==
    \A k \in DOMAIN resolutions :
        ~resolutions[k].ok =>
            /\ status = "err"
            /\ resolutions[k].label \notin DOMAIN colors

\* An output artifact exists: a file on disk, whole or not, or printed text.
ArtifactsWritten == DOMAIN disk # {} \/ stdout # <<>>

\* The text a whole output file must hold for the graph as it is.
TextOf(name) == IF name = "output.dot" THEN DotText(g) ELSE EdgeLines(g)

\* C7 (no partial output): an artifact exists only when every row the query
\* yields has been processed and every recorded triple inserted, so a run
\* that fails in the data load, the query or the row pass leaves none; a
\* whole file holds the text of the finished graph; and a run that reports
\* success has written both of its artifacts whole.
C7_NoPartialOutput ==
    /\ ArtifactsWritten =>
        LET rows_ == Surviving
        IN  /\ io # <<>> /\ io[Len(io)][1] = "data"
            /\ remaining = {}
            /\ Len(rowlog) = Cardinality(Solutions(store))
            /\ Len(edges) = Len(rows_)
            /\ g = GraphOfRows(rows_)
    /\ \A name \in DOMAIN disk : disk[name].complete => disk[name].text = TextOf(name)
    /\ status = "ok" =>
        /\ "output.dot" \in DOMAIN disk /\ disk["output.dot"].complete
        /\ IF coloring
           THEN stdout = <<graph_to_d2lang(g, colors)>>
           ELSE "output.d2" \in DOMAIN disk /\ disk["output.d2"].complete

\* C7 witness: the build died in the row pass, after at least one row had
\* been recorded and with rows still to come, and no artifact exists.
C7_Witness ==
    /\ status \in {"err", "panic"}
    /\ labels # <<>>
    /\ remaining # {}
    /\ ~ArtifactsWritten

\* The node is related to the class by zero or more steps of
\* rdfs:subClassOf or owl:equivalentClass.
Related(node, class_name) == Iri(class_name) \in PathClosure(store, {node})

ScenarioRules == << <<NS_BRICK \o <<"Equipment">>, <<"Gold">> >> >>

\* C8 (ancestry-based colouring): a class gets the colour of a rule whose
\* class it is related to, and the default when it is related to none; and
\* the scenario build has the one edge brick_Point -> brick_Equipment
\* labelled brick_feeds with both nodes Gold.
C8_AncestryColoring ==
    /\ \A k \in DOMAIN resolutions :
        LET r == resolutions[k]
            matching == { cn \in DOMAIN class_color_map : Related(r.node, cn) }
        IN  r.ok =>
              IF matching = {}
              THEN r.color = DefaultColor
              ELSE \E cn \in matching : r.color = class_color_map[cn]
    /\ ( /\ args = <<"brick.ttl", "data.ttl">>
         /\ color_map_defn = ScenarioRules
         /\ filter = "true"
         /\ status = "ok" ) =>
        /\ g = [nodes |-> << <<"brick_", "Point">>, <<"brick_", "Equipment">> >>,
                edges |-> << [source |-> 1, target |-> 2,
                              weight |-> <<"brick_", "feeds">>] >>]
        /\ colors = ( <<"brick_", "Point">> :> <<"Gold">> )
                        @@ ( <<"brick_", "Equipment">> :> <<"Gold">> )

\* C9 (usage error): with fewer than two positional arguments the program
\* ends on the usage message with a non-zero status, having opened no file,
\* loaded nothing and written no output; with two or more, the files are
\* opened and loaded in argument order, every one but the last as an
\* ontology and the last as the data graph.
C9_UsageAndLoadOrder ==
    /\ Len(args) < 2 =>
        /\ io = <<>> /\ store = {} /\ ~ArtifactsWritten
        /\ \/ status = "running" /\ pc = "main"
           \/ status = "usage" /\ pc = "exit" /\ stderr # <<>>
    /\ Len(args) >= 2 =>
        /\ status # "usage" /\ stderr = <<>>
        /\ Len(io) <= Len(args)
        /\ \A k \in DOMAIN io :
            /\ io[k][2] = args[k]
            /\ k < Len(io) => io[k][1] = "ontology"
            /\ io[k][1] \in IF k < Len(args)
                            THEN {"ontology", "ontology_failed", "open_failed"}
                            ELSE {"data", "data_failed", "open_failed"}
        /\ pc \notin {"main", "ontology", "exit"} =>
            /\ Len(io) = Len(args)
            /\ io[Len(io)][1] = "data"
            /\ store = UNION { FileTriples(args[k]) : k \in DOMAIN args }

\* C9 witness: a single argument, and the program has ended on the usage
\* message.
C9_Witness ==
    /\ Len(args) = 1
    /\ status = "usage"
    /\ stderr # <<>>

\* C10 (cache and nodes agree): after a successful colouring build the
\* labels with a cached colour are the node labels, and the d2 text has one
\* fill line for each node and no other.
C10_CacheMatchesNodes ==
    (coloring /\ status = "ok") =>
        /\ DOMAIN colors = Range(g.nodes)
        /\ \A k \in DOMAIN stdout :
            /\ DOMAIN stdout[k].fill_lines =
                   { FillLine(l, colors[l]) : l \in Range(g.nodes) }
            /\ \A line \in DOMAIN stdout[k].fill_lines : stdout[k].fill_lines[line] = 1
            /\ Cardinality(DOMAIN stdout[k].fill_lines) = Len(g.nodes)
        /\ \A k \in DOMAIN Surviving :
            rewrite_term(Surviving[k].p) \notin Range(g.nodes)
                => rewrite_term(Surviving[k].p) \notin DOMAIN colors

\* C10 witness: a successful colouring build of at least two nodes in which
\* the filter rejected a row.
C10_Witness ==
    /\ coloring
    /\ status = "ok"
    /\ Len(g.nodes) >= 2
    /\ stdout # <<>>
    /\ \E k \in DOMAIN rowlog : ~Survives(rowlog[k])

====
